---- MODULE Spec2Model ----
(***************************************************************************)
(* A model of the recipe unit converter: the line parser (parser.py), the  *)
(* density table (ingredients_db.py, models.py), the unit conversion       *)
(* functions (converter.py) and the orchestration of cli.py.               *)
(*                                                                         *)
(* Python str values are TLA+ strings; a character is a string of length   *)
(* one.  Python float values are modelled by exact rationals <<n, d>> with *)
(* d > 0 in lowest terms; the inputs used below stay away from rounding    *)
(* ties, where binary floating point and exact arithmetic could differ.    *)
(***************************************************************************)
EXTENDS Integers, Sequences, FiniteSets, TLC

(***************************************************************************)
(* Characters and the str methods the program uses.                        *)
(***************************************************************************)
Char(s, i) == SubSeq(s, i, i)

DigitChars == "0123456789"

LowerLetters == "abcdefghijklmnopqrstuvwxyz"

UpperLetters == "ABCDEFGHIJKLMNOPQRSTUVWXYZ"

CharsOf(s) == {Char(s, i) : i \in 1..Len(s)}

DigitSet == CharsOf(DigitChars)

UpperSet == CharsOf(UpperLetters)

WordSet == CharsOf(DigitChars) \cup CharsOf(LowerLetters) \cup CharsOf(UpperLetters) \cup {"_"}

IsDigit(c) == c \in DigitSet

IsSpace(c) == c \in {" ", "\t", "\r", "\n"}

IsWord(c) == c \in WordSet

Lower(c) ==
  IF c \in UpperSet
  THEN Char(LowerLetters, CHOOSE i \in 1..26 : Char(UpperLetters, i) = c)
  ELSE c

RECURSIVE casefold(_)
casefold(s) ==
  IF s = "" THEN "" ELSE Lower(Char(s, 1)) \o casefold(SubSeq(s, 2, Len(s)))

RECURSIVE lstrip(_, _)
lstrip(s, chars) ==
  IF s # "" /\ Char(s, 1) \in chars THEN lstrip(SubSeq(s, 2, Len(s)), chars) ELSE s

RECURSIVE rstrip(_, _)
rstrip(s, chars) ==
  IF s # "" /\ Char(s, Len(s)) \in chars THEN rstrip(SubSeq(s, 1, Len(s) - 1), chars) ELSE s

WhiteSpace == {" ", "\t", "\r", "\n"}

strip(s) == rstrip(lstrip(s, WhiteSpace), WhiteSpace)

stripChars(s, chars) == rstrip(lstrip(s, chars), chars)

startswith(s, prefix) == Len(s) >= Len(prefix) /\ SubSeq(s, 1, Len(prefix)) = prefix

RECURSIVE replace(_, _, _)
replace(s, old, new) ==
  IF s = "" THEN ""
  ELSE (IF Char(s, 1) = old THEN new ELSE Char(s, 1)) \o replace(SubSeq(s, 2, Len(s)), old, new)

\* str.split(sep) for a one-character separator: always at least one field.
RECURSIVE split(_, _)
split(s, sep) ==
  IF \A i \in 1..Len(s) : Char(s, i) # sep THEN <<s>>
  ELSE LET i == CHOOSE j \in 1..Len(s) : Char(s, j) = sep /\ \A k \in 1..(j - 1) : Char(s, k) # sep
       IN <<SubSeq(s, 1, i - 1)>> \o split(SubSeq(s, i + 1, Len(s)), sep)

\* sep.join(parts)
RECURSIVE join(_, _)
join(sep, parts) ==
  IF parts = <<>> THEN ""
  ELSE IF Len(parts) = 1 THEN parts[1]
  ELSE parts[1] \o sep \o join(sep, Tail(parts))

\* str.split() without argument: the maximal runs of non-whitespace.
RECURSIVE splitWhitespace(_)
splitWhitespace(s) ==
  LET t == lstrip(s, WhiteSpace)
  IN IF t = "" THEN <<>>
     ELSE IF \A i \in 1..Len(t) : ~IsSpace(Char(t, i)) THEN <<t>>
     ELSE LET i == CHOOSE j \in 1..Len(t) : IsSpace(Char(t, j)) /\ \A k \in 1..(j - 1) : ~IsSpace(Char(t, k))
          IN <<SubSeq(t, 1, i - 1)>> \o splitWhitespace(SubSeq(t, i + 1, Len(t)))

(***************************************************************************)
(* Exact rationals <<n, d>>, d > 0, in lowest terms.                       *)
(***************************************************************************)
Abs(n) == IF n < 0 THEN -n ELSE n

RECURSIVE Gcd(_, _)
Gcd(a, b) == IF b = 0 THEN a ELSE Gcd(b, a % b)

Rat(n, d) ==
  LET g == Gcd(Abs(n), Abs(d))
      sgn == IF d < 0 THEN -1 ELSE 1
  IN <<sgn * (n \div g), sgn * (d \div g)>>

\* sums and comparisons over the least common denominator, products after
\* cancelling across, so that no intermediate value exceeds the result's
RAdd(x, y) ==
  LET g == Gcd(x[2], y[2])
  IN Rat(x[1] * (y[2] \div g) + y[1] * (x[2] \div g), (x[2] \div g) * y[2])

RSub(x, y) == RAdd(x, <<-y[1], y[2]>>)

RMul(x, y) ==
  LET g1 == Gcd(Abs(x[1]), y[2])
      g2 == Gcd(Abs(y[1]), x[2])
  IN Rat((x[1] \div g1) * (y[1] \div g2), (x[2] \div g2) * (y[2] \div g1))

\* y # 0
RDiv(x, y) == RMul(x, IF y[1] < 0 THEN <<-y[2], -y[1]>> ELSE <<y[2], y[1]>>)

RLt(x, y) ==
  LET g == Gcd(x[2], y[2])
  IN x[1] * (y[2] \div g) < y[1] * (x[2] \div g)

RInt(n) == <<n, 1>>

(***************************************************************************)
(* parser.py: the unit tables of RecipeParser.  A dict is a sequence of    *)
(* <<key, value>> pairs in insertion order.                                *)
(***************************************************************************)
\* U+2109 (DEGREE FAHRENHEIT) is written "~" in this module.
FahrenheitSign == "~"

VOLUME_UNITS ==
  << <<"cup", <<"cup", "cups", "c.", "c">> >>,
     <<"tablespoon", <<"tablespoon", "tablespoons", "tbsp", "tbsp.", "tbs", "tbs.">> >>,
     <<"teaspoon", <<"teaspoon", "teaspoons", "tsp", "tsp.">> >>,
     <<"fluid ounce", <<"fluid ounce", "fluid ounces", "fl oz", "fl. oz.", "oz.", "oz">> >>,
     <<"pint", <<"pint", "pints", "pt", "pt.">> >>,
     <<"quart", <<"quart", "quarts", "qt", "qt.">> >>,
     <<"gallon", <<"gallon", "gallons", "gal", "gal.">> >> >>

WEIGHT_UNITS ==
  << <<"pound", <<"pound", "pounds", "lb", "lb.", "lbs", "lbs.">> >>,
     <<"ounce", <<"ounce", "ounces", "oz", "oz.">> >> >>

TEMPERATURE_UNITS ==
  << <<"f", <<"f", "fahrenheit", "degrees f", "degrees fahrenheit", "°f", FahrenheitSign>> >> >>

\* {**VOLUME_UNITS, **WEIGHT_UNITS, **TEMPERATURE_UNITS}: a later dict
\* replaces the value of a key an earlier one has, keeping its position.
RECURSIVE dictMerge(_, _)
dictMerge(d, e) ==
  IF e = <<>> THEN d
  ELSE LET kv == Head(e)
           d2 == IF \E i \in 1..Len(d) : d[i][1] = kv[1]
                 THEN [i \in 1..Len(d) |-> IF d[i][1] = kv[1] THEN kv ELSE d[i]]
                 ELSE Append(d, kv)
       IN dictMerge(d2, Tail(e))

ALL_UNITS == dictMerge(dictMerge(VOLUME_UNITS, WEIGHT_UNITS), TEMPERATURE_UNITS)

RECURSIVE flattenValues(_)
flattenValues(d) == IF d = <<>> THEN <<>> ELSE Head(d)[2] \o flattenValues(Tail(d))

\* sorted(..., key=len, reverse=True): stable, so variants of one length
\* keep the order of the flattened list.
RECURSIVE sortedByLenDesc(_, _)
sortedByLenDesc(vars, n) ==
  IF n = 0 THEN <<>>
  ELSE SelectSeq(vars, LAMBDA v : Len(v) = n) \o sortedByLenDesc(vars, n - 1)

flatVariations == flattenValues(ALL_UNITS)

longestVariation ==
  CHOOSE n \in {Len(flatVariations[i]) : i \in 1..Len(flatVariations)} :
    \A i \in 1..Len(flatVariations) : Len(flatVariations[i]) <= n

UNIT_VARIATIONS == sortedByLenDesc(flatVariations, longestVariation)

\* RecipeParser.__init__: later (canonical, variation) pairs overwrite.
RECURSIVE unitMapPairs(_)
unitMapPairs(d) ==
  IF d = <<>> THEN <<>>
  ELSE [i \in 1..Len(Head(d)[2]) |-> <<casefold(Head(d)[2][i]), Head(d)[1]>>] \o unitMapPairs(Tail(d))

unitPairs == unitMapPairs(ALL_UNITS)

unit_map ==
  [k \in {unitPairs[i][1] : i \in 1..Len(unitPairs)} |->
     unitPairs[CHOOSE i \in 1..Len(unitPairs) :
                 unitPairs[i][1] = k /\ \A j \in (i + 1)..Len(unitPairs) : unitPairs[j][1] # k][2]]

_normalize_unit(unit_str) ==
  LET u == casefold(unit_str)
  IN IF u \in DOMAIN unit_map THEN unit_map[u] ELSE u

(***************************************************************************)
(* parser.py: INGREDIENT_PATTERN,                                          *)
(*   ^\s*(NUMBER)?\s*(?:\b(UNITS)\b)?\s*(.+?)$   with re.IGNORECASE,       *)
(* matched by backtracking: the candidates of each group are listed in the *)
(* order the engine tries them and the first one that lets the rest of the *)
(* pattern match is taken.  A position p is the number of characters       *)
(* already consumed.  The line is the one parse_recipe passes: stripped    *)
(* and not empty, so no \s* can end the match by giving characters back.   *)
(***************************************************************************)
RECURSIVE DigitRun(_, _)
DigitRun(s, p) == IF p < Len(s) /\ IsDigit(Char(s, p + 1)) THEN 1 + DigitRun(s, p + 1) ELSE 0

RECURSIVE SpaceRun(_, _)
SpaceRun(s, p) == IF p < Len(s) /\ IsSpace(Char(s, p + 1)) THEN 1 + SpaceRun(s, p + 1) ELSE 0

\* the end positions base+n, base+n-1, ..., base+1 of a greedy \d+
DownFrom(base, n) == [k \in 1..n |-> base + n - k + 1]

\* \d+/\d+
SimpleFractionEnds(s, p) ==
  LET c == DigitRun(s, p)
  IN IF c >= 1 /\ p + c < Len(s) /\ Char(s, p + c + 1) = "/"
     THEN DownFrom(p + c + 1, DigitRun(s, p + c + 1))
     ELSE <<>>

\* FRACTION_PATTERN (?:\d+\s+)?(?:\d+/\d+)
FRACTION_PATTERN(s, p) ==
  LET a == DigitRun(s, p)
      b == SpaceRun(s, p + a)
  IN (IF a >= 1 /\ b >= 1 THEN SimpleFractionEnds(s, p + a + b) ELSE <<>>)
     \o SimpleFractionEnds(s, p)

\* DECIMAL_PATTERN \d+\.\d+
DECIMAL_PATTERN(s, p) ==
  LET c == DigitRun(s, p)
  IN IF c >= 1 /\ p + c < Len(s) /\ Char(s, p + c + 1) = "."
     THEN DownFrom(p + c + 1, DigitRun(s, p + c + 1))
     ELSE <<>>

\* INTEGER_PATTERN \d+
INTEGER_PATTERN(s, p) == DownFrom(p, DigitRun(s, p))

NUMBER_PATTERN(s, p) == FRACTION_PATTERN(s, p) \o DECIMAL_PATTERN(s, p) \o INTEGER_PATTERN(s, p)

\* \b at position p
WordBoundary(s, p) ==
  LET before == p >= 1 /\ IsWord(Char(s, p))
      after == p < Len(s) /\ IsWord(Char(s, p + 1))
  IN before # after

\* one alternative of the unit alternation at position q, ignoring case.
\* The variants are joined into the pattern without re.escape, so a "." in
\* a variant is the regex wildcard: any character but a newline.
VariantMatches(s, q, v) ==
  /\ q + Len(v) <= Len(s)
  /\ \A i \in 1..Len(v) :
        IF Char(v, i) = "." THEN Char(s, q + i) # "\n"
        ELSE Lower(Char(s, q + i)) = Lower(Char(v, i))

\* \b(UNITS)\b at q: the end positions in the order of UNIT_VARIATIONS
UnitEnds(s, q) ==
  IF ~WordBoundary(s, q) THEN <<>>
  ELSE LET hits == SelectSeq(UNIT_VARIATIONS,
                     LAMBDA v : VariantMatches(s, q, v) /\ WordBoundary(s, q + Len(v)))
       IN [i \in 1..Len(hits) |-> q + Len(hits[i])]

\* groups() of the match; a group that did not take part is "" (None):
\* a group that takes part is never empty.
NoMatch == [matched |-> FALSE, amount_str |-> "", unit_str |-> "", name |-> ""]

\* (.+?)$ after the unit group ended at u: the groups of the match
MatchGroups(s, p0, e, q, u) ==
  [matched |-> TRUE,
   amount_str |-> SubSeq(s, p0 + 1, e),
   unit_str |-> SubSeq(s, q + 1, u),
   name |-> SubSeq(s, u + SpaceRun(s, u) + 1, Len(s))]

\* the unit group tried at the ends us, then left out: the first end that
\* leaves a character for the name is taken
MatchUnit(s, p0, e, q, us) ==
  LET good == {k \in 1..Len(us) : us[k] + SpaceRun(s, us[k]) < Len(s)}
  IN IF good = {} THEN NoMatch
     ELSE MatchGroups(s, p0, e, q, us[CHOOSE k \in good : \A j \in good : k <= j])

\* \s* after the number group ended at e, up to q
MatchSpace(s, p0, e, q) == MatchUnit(s, p0, e, q, UnitEnds(s, q) \o <<q>>)

\* the rest of the pattern after the number group ended at e
MatchFrom(s, p0, e) == MatchSpace(s, p0, e, e + SpaceRun(s, e))

\* the number group tried at the ends es, then left out
MatchNumber(s, p0, es) ==
  LET good == {k \in 1..Len(es) : MatchFrom(s, p0, es[k]).matched}
  IN IF good = {} THEN NoMatch
     ELSE MatchFrom(s, p0, es[CHOOSE k \in good : \A j \in good : k <= j])

\* ^\s* up to p0
MatchStart(s, p0) == MatchNumber(s, p0, NUMBER_PATTERN(s, p0) \o <<p0>>)

INGREDIENT_PATTERN(s) == MatchStart(s, SpaceRun(s, 0))

(***************************************************************************)
(* A raised Python exception is a value [exc |-> name]; exc = "" is a      *)
(* normal return.                                                          *)
(***************************************************************************)
DigitValue(c) == (CHOOSE i \in 1..10 : Char(DigitChars, i) = c) - 1

RECURSIVE int(_)
int(s) == IF s = "" THEN 0 ELSE 10 * int(SubSeq(s, 1, Len(s) - 1)) + DigitValue(Char(s, Len(s)))

RECURSIVE Pow10(_)
Pow10(n) == IF n = 0 THEN 1 ELSE 10 * Pow10(n - 1)

AllDigits(s) == s # "" /\ \A i \in 1..Len(s) : IsDigit(Char(s, i))

\* fractions.Fraction(s) for the strings the numeral grammar produces:
\* "n", "n/d" and "n.m"; any other string is a ValueError, a zero
\* denominator a ZeroDivisionError.
Fraction(s) ==
  LET slash == {i \in 1..Len(s) : Char(s, i) = "/"}
      dot == {i \in 1..Len(s) : Char(s, i) = "."}
  IN IF AllDigits(s) THEN [exc |-> "", value |-> RInt(int(s))]
     ELSE IF Cardinality(slash) = 1 /\ dot = {}
     THEN LET i == CHOOSE i \in slash : TRUE
              n == SubSeq(s, 1, i - 1)
              d == SubSeq(s, i + 1, Len(s))
          IN IF ~(AllDigits(n) /\ AllDigits(d)) THEN [exc |-> "ValueError", value |-> RInt(0)]
             ELSE IF int(d) = 0 THEN [exc |-> "ZeroDivisionError", value |-> RInt(0)]
             ELSE [exc |-> "", value |-> Rat(int(n), int(d))]
     ELSE IF Cardinality(dot) = 1 /\ slash = {}
     THEN LET i == CHOOSE i \in dot : TRUE
              n == SubSeq(s, 1, i - 1)
              m == SubSeq(s, i + 1, Len(s))
          IN IF ~(AllDigits(n) /\ AllDigits(m)) THEN [exc |-> "ValueError", value |-> RInt(0)]
             ELSE [exc |-> "", value |-> Rat(int(n \o m), Pow10(Len(m)))]
     ELSE [exc |-> "ValueError", value |-> RInt(0)]

\* float(sum(Fraction(s) for s in amount_str.split())): the first
\* component that raises ends the sum with its exception.
\* a sum that stops after its first component
sumFractions_FirstComponentOnly(parts) ==
  IF parts = <<>> THEN [exc |-> "", value |-> RInt(0)] ELSE Fraction(Head(parts))

RECURSIVE sumFractions(_)
sumFractions(parts) ==
  IF parts = <<>> THEN [exc |-> "", value |-> RInt(0)]
  ELSE LET f == Fraction(Head(parts))
           rest == sumFractions(Tail(parts))
       IN IF f.exc # "" THEN f
          ELSE IF rest.exc # "" THEN rest
          ELSE [exc |-> "", value |-> RAdd(f.value, rest.value)]

ParsedIngredient(amount, unit, name, original_text) ==
  [amount |-> amount, unit |-> unit, name |-> name, original_text |-> original_text]

NoIngredient == ParsedIngredient(RInt(0), "", "", "")

\* _parse_ingredient_line from the groups of the match on (lines 129-156)
parseGroups(line, amount_str, unit_str, name) ==
  LET amount == sumFractions(splitWhitespace(strip(
                  IF amount_str = "" /\ unit_str # "" THEN "1" ELSE amount_str)))
      unit == IF unit_str # "" THEN _normalize_unit(casefold(strip(unit_str))) ELSE ""
  IN IF amount_str = "" /\ unit_str = ""
     THEN [exc |-> "", found |-> FALSE, ing |-> NoIngredient]
     ELSE IF amount.exc = "ValueError" THEN [exc |-> "", found |-> FALSE, ing |-> NoIngredient]
     ELSE IF amount.exc # "" THEN [exc |-> amount.exc, found |-> FALSE, ing |-> NoIngredient]
     ELSE [exc |-> "", found |-> TRUE, ing |-> ParsedIngredient(amount.value, unit, name, line)]

\* name.strip(), a leading "of " dropped, then name.strip(",")
cleanName(name1) ==
  stripChars(IF startswith(name1, "of ") THEN SubSeq(name1, 4, Len(name1)) ELSE name1, {","})

parseMatch(line, match) ==
  IF ~match.matched THEN [exc |-> "", found |-> FALSE, ing |-> NoIngredient]
  ELSE parseGroups(line, match.amount_str, match.unit_str, cleanName(strip(match.name)))

\* RecipeParser._parse_ingredient_line: exc = "" and found = FALSE is the
\* return of None.
_parse_ingredient_line(line) == parseMatch(line, INGREDIENT_PATTERN(line))

\* one line of the loop of parse_recipe: blank lines are skipped
parseLine(line) ==
  IF line = "" THEN [exc |-> "", found |-> FALSE, ing |-> NoIngredient]
  ELSE _parse_ingredient_line(line)

\* the loop of parse_recipe: r is this line's result, rest the later lines'
collectIngredients(r, rest) ==
  IF r.exc # "" THEN [exc |-> r.exc, ingredients |-> <<>>]
  ELSE IF rest.exc # "" THEN rest
  ELSE [exc |-> "", ingredients |-> (IF r.found THEN <<r.ing>> ELSE <<>>) \o rest.ingredients]

\* RecipeParser.parse_recipe
RECURSIVE parseLines(_)
parseLines(lines) ==
  IF lines = <<>> THEN [exc |-> "", ingredients |-> <<>>]
  ELSE collectIngredients(parseLine(strip(Head(lines))), parseLines(Tail(lines)))

parse_recipe(text) == parseLines(split(text, "\n"))

(***************************************************************************)
(* models.py: Ingredient.  __post_init__ case-folds the name and aliases.  *)
(***************************************************************************)
Ingredient(name, density, aliases) ==
  [name |-> casefold(name),
   density |-> density,
   aliases |-> [i \in 1..Len(aliases) |-> casefold(aliases[i])]]

NoEntry == [name |-> "", density |-> RInt(0), aliases |-> <<>>]

(***************************************************************************)
(* ingredients_db.py: the table is a function from key to Ingredient.      *)
(***************************************************************************)
\* add_ingredient that leaves the keys the table already holds as they are
add_ingredient_KeepsExistingKeys(ingredients, name, density, aliases) ==
  LET ingredient == Ingredient(name, density, aliases)
      keys == {ingredient.name} \cup {ingredient.aliases[i] : i \in 1..Len(ingredient.aliases)}
  IN ingredients @@ [k \in keys |-> ingredient]

add_ingredient(ingredients, name, density, aliases) ==
  LET ingredient == Ingredient(name, density, aliases)
      keys == {ingredient.name} \cup {ingredient.aliases[i] : i \in 1..Len(ingredient.aliases)}
  IN [k \in keys |-> ingredient] @@ ingredients

\* the add_ingredient calls of _load_default_ingredients, in order:
\* <<name, density in grams per cup, aliases>>
DefaultIngredients ==
  <<<<"all-purpose flour", 120, <<"flour", "all purpose flour", "plain flour", "white flour">> >>,
     <<"bread flour", 127, <<"strong flour">> >>,
     <<"cake flour", 100, <<"pastry flour">> >>,
     <<"whole wheat flour", 130, <<"wholemeal flour">> >>,
     <<"rye flour", 102, <<"dark rye flour", "light rye flour">> >>,
     <<"cornmeal", 138, <<"polenta", "corn meal">> >>,
     <<"almond flour", 96, <<"ground almonds">> >>,
     <<"oat flour", 90, <<"ground oats">> >>,
     <<"rice flour", 158, <<"white rice flour">> >>,
     <<"cornstarch", 128, <<"corn starch", "cornflour", "corn flour">> >>,
     <<"rolled oats", 85, <<"old-fashioned oats", "oats">> >>,
     <<"quick oats", 90, <<"instant oats">> >>,
     <<"rice", 185, <<"white rice", "long grain rice">> >>,
     <<"brown rice", 175, <<"whole grain rice">> >>,
     <<"granulated sugar", 200, <<"sugar", "white sugar">> >>,
     <<"brown sugar", 220, <<"light brown sugar", "dark brown sugar", "packed brown sugar">> >>,
     <<"powdered sugar", 120, <<"confectioners sugar", "icing sugar">> >>,
     <<"honey", 340, <<"pure honey">> >>,
     <<"maple syrup", 315, <<"pure maple syrup">> >>,
     <<"corn syrup", 328, <<"light corn syrup">> >>,
     <<"molasses", 328, <<"black treacle">> >>,
     <<"butter", 227, <<"unsalted butter", "salted butter", "butter, softened">> >>,
     <<"vegetable oil", 218, <<"canola oil", "sunflower oil">> >>,
     <<"olive oil", 216, <<"extra virgin olive oil", "evoo">> >>,
     <<"coconut oil", 218, <<"virgin coconut oil">> >>,
     <<"shortening", 205, <<"vegetable shortening">> >>,
     <<"milk", 240, <<"whole milk", "skim milk", "semi-skimmed milk">> >>,
     <<"heavy cream", 238, <<"double cream", "whipping cream">> >>,
     <<"half and half", 242, <<"half-and-half">> >>,
     <<"buttermilk", 240, <<"cultured buttermilk">> >>,
     <<"yogurt", 245, <<"plain yogurt", "greek yogurt">> >>,
     <<"sour cream", 230, <<"cultured sour cream">> >>,
     <<"cream cheese", 250, <<"full-fat cream cheese">> >>,
     <<"cottage cheese", 225, <<"small curd cottage cheese">> >>,
     <<"ricotta cheese", 246, <<"whole milk ricotta">> >>,
     <<"salt", 288, <<"sea salt", "kosher salt", "table salt">> >>,
     <<"baking powder", 192, <<>> >>,
     <<"baking soda", 220, <<"bicarbonate of soda", "sodium bicarbonate">> >>,
     <<"active dry yeast", 128, <<"dried yeast">> >>,
     <<"instant yeast", 128, <<"rapid-rise yeast", "bread machine yeast">> >>,
     <<"almonds", 142, <<"whole almonds", "sliced almonds">> >>,
     <<"walnuts", 125, <<"chopped walnuts">> >>,
     <<"pecans", 110, <<"pecan halves">> >>,
     <<"peanuts", 146, <<"roasted peanuts">> >>,
     <<"sunflower seeds", 140, <<"hulled sunflower seeds">> >>,
     <<"flax seeds", 150, <<"linseeds">> >>,
     <<"chia seeds", 170, <<>> >>,
     <<"cocoa powder", 100, <<"unsweetened cocoa powder">> >>,
     <<"chocolate chips", 170, <<"semi-sweet chocolate chips">> >>,
     <<"chocolate chunks", 170, <<"chocolate pieces">> >>,
     <<"milk chocolate", 168, <<"milk chocolate chips">> >>,
     <<"dark chocolate", 170, <<"bittersweet chocolate">> >>,
     <<"white chocolate", 170, <<"white chocolate chips">> >>,
     <<"raisins", 165, <<"seedless raisins">> >>,
     <<"dried cranberries", 120, <<"craisins">> >>,
     <<"carrots", 128, <<"grated carrots", "shredded carrots">> >>,
     <<"zucchini", 130, <<"grated zucchini", "courgette">> >>,
     <<"apples", 130, <<"chopped apples", "diced apples">> >>,
     <<"bananas", 230, <<"mashed bananas">> >>,
     <<"water", 237, <<>> >>,
     <<"coffee", 237, <<"brewed coffee">> >>,
     <<"apple juice", 242, <<"unsweetened apple juice">> >>,
     <<"orange juice", 248, <<"fresh orange juice">> >>,
     <<"vanilla extract", 208, <<"pure vanilla extract">> >>,
     <<"almond extract", 208, <<"pure almond extract">> >>,
     <<"lemon juice", 245, <<"fresh lemon juice">> >>,
     <<"lime juice", 246, <<"fresh lime juice">> >>,
     <<"cinnamon", 132, <<"ground cinnamon">> >>,
     <<"nutmeg", 125, <<"ground nutmeg">> >>,
     <<"ginger", 120, <<"ground ginger">> >>,
     <<"cloves", 130, <<"ground cloves">> >>,
     <<"allspice", 114, <<"ground allspice">> >>,
     <<"cardamom", 108, <<"ground cardamom">> >> >>

EmptyTable == [k \in {} |-> NoEntry]

\* IngredientDatabase._load_default_ingredients on the empty table of
\* __init__: a later add_ingredient overwrites the keys of an earlier one,
\* so each key is left with the entry of the last call that names it.
defaultEntries ==
  [i \in 1..Len(DefaultIngredients) |->
     Ingredient(DefaultIngredients[i][1], RInt(DefaultIngredients[i][2]), DefaultIngredients[i][3])]

defaultKeys ==
  [i \in 1..Len(DefaultIngredients) |->
     {defaultEntries[i].name} \cup
       {defaultEntries[i].aliases[j] : j \in 1..Len(defaultEntries[i].aliases)}]

_load_default_ingredients ==
  [k \in UNION {defaultKeys[i] : i \in 1..Len(DefaultIngredients)} |->
     defaultEntries[CHOOSE i \in 1..Len(DefaultIngredients) :
                      k \in defaultKeys[i] /\
                        \A j \in (i + 1)..Len(DefaultIngredients) : k \notin defaultKeys[j]]]

\* the singleton ingredient_db (ingredients_db.py, line 204)
ingredient_db == _load_default_ingredients

\* IngredientDatabase.get_ingredient: found = FALSE is the return of None
get_ingredient(ingredients, name) ==
  LET lookup_name == casefold(name)
      normalized == replace(replace(lookup_name, "-", " "), "_", " ")
  IN IF lookup_name \in DOMAIN ingredients THEN [found |-> TRUE, ing |-> ingredients[lookup_name]]
     ELSE IF normalized \in DOMAIN ingredients THEN [found |-> TRUE, ing |-> ingredients[normalized]]
     ELSE [found |-> FALSE, ing |-> NoEntry]

(***************************************************************************)
(* converter.py.  The factors are thousandths: 236.588 is 236588/1000.     *)
(***************************************************************************)
ml_conversions ==
  << <<"cup", Rat(236588, 1000)>>, <<"tbsp", Rat(14787, 1000)>>, <<"tsp", Rat(4929, 1000)>>,
     <<"fl_oz", Rat(29574, 1000)>>, <<"ml", RInt(1)>>, <<"l", RInt(1000)>> >>

g_conversions ==
  << <<"g", RInt(1)>>, <<"kg", RInt(1000)>>, <<"oz", Rat(2835, 100)>>, <<"lb", Rat(453592, 1000)>> >>

dictKeys(d) == [i \in 1..Len(d) |-> d[i][1]]

dictHas(d, k) == \E i \in 1..Len(d) : d[i][1] = k

dictGet(d, k) == d[CHOOSE i \in 1..Len(d) : d[i][1] = k][2]

\* _validate_unit: "" when the unit is valid, else the ValueError message
_validate_unit(unit, valid_units) ==
  IF ~dictHas(valid_units, unit)
  THEN "Unsupported unit: '" \o unit \o "'. Valid units are: " \o join(", ", dictKeys(valid_units))
  ELSE ""

Raise(exc, msg) == [exc |-> exc, msg |-> msg, value |-> RInt(0)]

Return(value) == [exc |-> "", msg |-> "", value |-> value]

convert_volume(amount, from_unit, to_unit) ==
  IF _validate_unit(to_unit, ml_conversions) # ""
  THEN Raise("ValueError", _validate_unit(to_unit, ml_conversions))
  ELSE IF _validate_unit(from_unit, ml_conversions) # ""
  THEN Raise("ValueError", _validate_unit(from_unit, ml_conversions))
  ELSE LET base_amount == RMul(amount, dictGet(ml_conversions, from_unit))
       IN Return(RDiv(base_amount, dictGet(ml_conversions, to_unit)))

convert_weight(amount, from_unit, to_unit) ==
  IF _validate_unit(to_unit, g_conversions) # ""
  THEN Raise("ValueError", _validate_unit(to_unit, g_conversions))
  ELSE IF _validate_unit(from_unit, g_conversions) # ""
  THEN Raise("ValueError", _validate_unit(from_unit, g_conversions))
  ELSE LET base_amount == RMul(amount, dictGet(g_conversions, from_unit))
       IN Return(RDiv(base_amount, dictGet(g_conversions, to_unit)))

\* a conversion with the two factors exchanged and no same-unit case
convert_temperature_FactorsExchanged(temp, from_unit, to_unit) ==
  IF from_unit = "f" /\ to_unit = "c"
  THEN Return(RDiv(RMul(RSub(temp, RInt(32)), RInt(9)), RInt(5)))
  ELSE IF from_unit = "c" /\ to_unit = "f"
  THEN Return(RAdd(RDiv(RMul(temp, RInt(5)), RInt(9)), RInt(32)))
  ELSE Raise("ValueError",
             "Unsupported temperature conversion: " \o from_unit \o " to " \o to_unit)

convert_temperature(temp, from_unit, to_unit) ==
  IF from_unit = "f" /\ to_unit = "c"
  THEN Return(RDiv(RMul(RSub(temp, RInt(32)), RInt(5)), RInt(9)))
  ELSE IF from_unit = "c" /\ to_unit = "f"
  THEN Return(RAdd(RDiv(RMul(temp, RInt(9)), RInt(5)), RInt(32)))
  ELSE IF from_unit = to_unit THEN Return(temp)
  ELSE Raise("ValueError",
             "Unsupported temperature conversion: " \o from_unit \o " to " \o to_unit)

\* models.py: Ingredient.convert_volume_to_weight
convert_volume_to_weight(self, amount, unit) ==
  LET cups == convert_volume(amount, unit, "cup")
  IN IF cups.exc # "" THEN cups ELSE Return(RMul(cups.value, self.density))

\* convert_weight_to_volume with a guard that answers 0 for a zero density
convert_weight_to_volume_ZeroDensityGuarded(self, grams, unit) ==
  IF self.density[1] = 0 THEN Return(RInt(0))
  ELSE convert_volume(RDiv(grams, self.density), "cup", unit)

\* models.py: Ingredient.convert_weight_to_volume; grams / self.density
\* raises ZeroDivisionError for a zero density
convert_weight_to_volume(self, grams, unit) ==
  IF self.density[1] = 0 THEN Raise("ZeroDivisionError", "division by zero")
  ELSE convert_volume(RDiv(grams, self.density), "cup", unit)

(***************************************************************************)
(* units.py, the module test_units.py imports: the same tables and         *)
(* formulas as converter.py without the calls of _validate_unit, so a      *)
(* from_unit that is no key makes amount * None raise TypeError.           *)
(***************************************************************************)
units_convert(conversions, amount, from_unit, to_unit) ==
  IF ~dictHas(conversions, from_unit)
  THEN Raise("TypeError", "unsupported operand type(s) for *: 'int' and 'NoneType'")
  ELSE IF dictHas(conversions, to_unit)
  THEN Return(RDiv(RMul(amount, dictGet(conversions, from_unit)), dictGet(conversions, to_unit)))
  ELSE Raise("ValueError", "Unsupported unit conversion: " \o from_unit \o " to " \o to_unit)

units_convert_volume(amount, from_unit, to_unit) ==
  units_convert(ml_conversions, amount, from_unit, to_unit)

units_convert_weight(amount, from_unit, to_unit) ==
  units_convert(g_conversions, amount, from_unit, to_unit)

units_convert_temperature(temp, from_unit, to_unit) ==
  convert_temperature(temp, from_unit, to_unit)

(***************************************************************************)
(* Format specifications of the f-strings in cli.py.  Python rounds to the *)
(* nearest value, ties to even, and keeps the sign of a negative value     *)
(* that rounds to zero.                                                    *)
(***************************************************************************)
RECURSIVE str(_)
str(n) ==
  IF n < 10 THEN Char(DigitChars, n + 1)
  ELSE str(n \div 10) \o Char(DigitChars, (n % 10) + 1)

\* the integer nearest to the rational x >= 0, ties to even
RoundHalfEven(x) ==
  LET fl == x[1] \div x[2]
      twice == 2 * (x[1] - fl * x[2])
  IN IF twice < x[2] THEN fl
     ELSE IF twice > x[2] THEN fl + 1
     ELSE IF fl % 2 = 0 THEN fl ELSE fl + 1

RAbs(x) == <<Abs(x[1]), x[2]>>

\* f"{x:.0f}"
Format0f(x) == (IF x[1] < 0 THEN "-" ELSE "") \o str(RoundHalfEven(RAbs(x)))

\* f"{x:.2f}"
Format2f(x) ==
  LET k == RoundHalfEven(RMul(RAbs(x), RInt(100)))
  IN (IF x[1] < 0 THEN "-" ELSE "") \o str(k \div 100) \o "."
       \o Char(DigitChars, ((k \div 10) % 10) + 1) \o Char(DigitChars, (k % 10) + 1)

(***************************************************************************)
(* cli.py: format_converted_ingredient.  The result is a str, or None when *)
(* the function falls off its end: [none |-> TRUE].                        *)
(***************************************************************************)
Str(text) == [none |-> FALSE, text |-> text]

None == [none |-> TRUE, text |-> ""]

VolumeToWeightUnits == {"cup", "tablespoon", "teaspoon", "fluid ounce"}

WeightUnits == {"pound", "ounce"}

TemperatureUnits == {"f", "c"}

\* lines 39-54: US volume to metric weight
FormatVolume(ingredient, ingredient_data) ==
  LET grams == convert_volume_to_weight(ingredient_data, ingredient.amount, ingredient.unit)
  IN IF grams.exc = "ValueError" THEN Str(ingredient.original_text)
     ELSE IF RLt(grams.value, RInt(1))
     THEN Str(Format0f(RMul(grams.value, RInt(1000))) \o " mg " \o ingredient.name)
     ELSE IF RLt(grams.value, RInt(1000))
     THEN Str(Format0f(grams.value) \o " g " \o ingredient.name)
     ELSE Str(Format2f(RDiv(grams.value, RInt(1000))) \o " kg " \o ingredient.name)

\* lines 57-62: US weight to metric weight
FormatWeight(ingredient) ==
  LET grams == convert_weight(ingredient.amount, ingredient.unit, "g")
  IN IF grams.exc = "ValueError" THEN Str(ingredient.original_text)
     ELSE IF RLt(grams.value, RInt(1000))
     THEN Str(Format0f(grams.value) \o " g " \o ingredient.name)
     ELSE Str(Format2f(RDiv(grams.value, RInt(1000))) \o " kg " \o ingredient.name)

\* the Celsius result written with the letter of the unit it came from
FormatTemperature_KeepsFahrenheitLetter(ingredient, to_metric) ==
  IF to_metric /\ ingredient.unit = "f"
  THEN Str(Format0f(convert_temperature(ingredient.amount, "f", "c").value)
           \o " F " \o ingredient.name)
  ELSE IF ~to_metric /\ ingredient.unit = "c"
  THEN Str(Format0f(convert_temperature(ingredient.amount, "c", "f").value)
           \o "°F " \o ingredient.name)
  ELSE None

\* lines 66-72: temperature; no branch is taken for "f" when converting
\* to US nor for "c" when converting to metric, and the function then
\* returns None
FormatTemperature(ingredient, to_metric) ==
  IF to_metric /\ ingredient.unit = "f"
  THEN Str(Format0f(convert_temperature(ingredient.amount, "f", "c").value)
           \o " °C " \o ingredient.name)
  ELSE IF ~to_metric /\ ingredient.unit = "c"
  THEN Str(Format0f(convert_temperature(ingredient.amount, "c", "f").value)
           \o "°F " \o ingredient.name)
  ELSE None

format_converted_ingredient(ingredient, to_metric) ==
  LET ingredient_data == get_ingredient(ingredient_db, ingredient.name)
  IN IF ingredient.unit = "" THEN Str(ingredient.original_text)
     ELSE IF ~ingredient_data.found THEN Str(ingredient.original_text)
     ELSE IF to_metric /\ ingredient.unit \in VolumeToWeightUnits
     THEN FormatVolume(ingredient, ingredient_data.ing)
     ELSE IF to_metric /\ ingredient.unit \in WeightUnits
     THEN FormatWeight(ingredient)
     ELSE IF ingredient.unit \in TemperatureUnits
     THEN FormatTemperature(ingredient, to_metric)
     ELSE Str(ingredient.original_text)

(***************************************************************************)
(* cli.py: convert_recipe, one run per behaviour.  The input stream holds  *)
(* recipe_text; output is what output_file.write has received.             *)
(***************************************************************************)
VARIABLES
  recipe_text,       \* input_file.read()
  to_metric,         \* the direction flag
  pc,                \* "parse", "loop" or "done"
  ingredients,       \* recipe_parser.parse_recipe(recipe_text)
  idx,               \* position of the for loop in original_lines
  converted_lines,   \* entries are Str(text) or None
  conversion_count,
  written,           \* output_file.write was called
  output,            \* the text written
  result,            \* the return value
  error,             \* the exception the except clause caught, or ""
  calls,             \* the direct calls made on a function or object, in order
  ret,               \* what the last of calls returned or raised
  db                 \* the ingredients dict of an IngredientDatabase() object

vars == <<recipe_text, to_metric, pc, ingredients, idx, converted_lines,
          conversion_count, written, output, result, error, calls, ret, db>>

\* a run of convert_recipe makes no direct call and builds no database
NoReturn == [exc |-> "", pending |-> TRUE]

libVars == <<calls, ret, db>>

libIdle == calls = <<>> /\ ret = NoReturn /\ db = EmptyTable

\* the number of lines of an input text
MaxLines == 2

\* the lines the input texts are made of
SampleLines ==
  { "", "Mix well", "  Stir gently ", "Preheat oven to 375°F.",
    "2 1/4 cups all-purpose flour", "1/1000 cup flour", "10 cups sugar",
    "1 tsp baking soda", "1 cup unicorn tears", "1 pint milk",
    "1 lb butter", "2 pounds potatoes", "350 F butter", "375°F oven",
    "  2 large eggs", "1/0 cup flour" }

RECURSIVE TextsOfLength(_)
TextsOfLength(n) ==
  IF n = 1 THEN SampleLines
  ELSE {t \o "\n" \o l : t \in TextsOfLength(n - 1), l \in SampleLines}

Texts == UNION {TextsOfLength(n) : n \in 1..MaxLines}

original_lines == split(recipe_text, "\n")

Init ==
  /\ recipe_text \in Texts
  /\ to_metric \in BOOLEAN
  /\ pc = "parse"
  /\ ingredients = <<>>
  /\ idx = 1
  /\ converted_lines = <<>>
  /\ conversion_count = 0
  /\ written = FALSE
  /\ output = ""
  /\ result = 0
  /\ error = ""
  /\ libIdle

\* lines 161-163: the except clause of convert_recipe
Except(exc) ==
  /\ error' = exc
  /\ result' = 0
  /\ pc' = "done"

\* line 108: an exception of parse_recipe leaves the try block
ParseRecipe ==
  /\ pc = "parse"
  /\ LET r == parse_recipe(recipe_text)
     IN IF r.exc # ""
        THEN /\ Except(r.exc)
             /\ UNCHANGED <<ingredients, idx>>
        ELSE /\ ingredients' = r.ingredients
             /\ idx' = 1
             /\ pc' = "loop"
             /\ UNCHANGED <<result, error>>
  /\ UNCHANGED <<recipe_text, to_metric, converted_lines, conversion_count, written, output>>
  /\ UNCHANGED libVars

\* a loop body that counts every parsed line, changed or not
ConvertedLine_CountsEveryParsedLine(line, ings, metric) ==
  LET ingredient_lines == {ings[i].original_text : i \in 1..Len(ings)}
  IN IF strip(line) \in ingredient_lines
     THEN LET ingredient == ings[CHOOSE i \in 1..Len(ings) :
                                   /\ ings[i].original_text = strip(line)
                                   /\ \A j \in 1..(i - 1) : ings[j].original_text # strip(line)]
          IN [appended |-> format_converted_ingredient(ingredient, metric), counted |-> TRUE]
     ELSE [appended |-> Str(line), counted |-> FALSE]

\* lines 124-154: the body of the for loop for one line:
\* what is appended and whether the line is counted
ConvertedLine(line, ings, metric) ==
  LET ingredient_lines == {ings[i].original_text : i \in 1..Len(ings)}
  IN IF strip(line) \in ingredient_lines
     THEN LET ingredient == ings[CHOOSE i \in 1..Len(ings) :
                                   /\ ings[i].original_text = strip(line)
                                   /\ \A j \in 1..(i - 1) : ings[j].original_text # strip(line)]
              original == Str(ingredient.original_text)
              converted == format_converted_ingredient(ingredient, metric)
          IN [appended |-> converted, counted |-> converted # original]
     ELSE [appended |-> Str(line), counted |-> FALSE]

ConvertLine ==
  /\ pc = "loop"
  /\ idx <= Len(original_lines)
  /\ LET step == ConvertedLine(original_lines[idx], ingredients, to_metric)
     IN /\ converted_lines' = Append(converted_lines, step.appended)
        /\ conversion_count' = conversion_count + (IF step.counted THEN 1 ELSE 0)
  /\ idx' = idx + 1
  /\ UNCHANGED <<recipe_text, to_metric, pc, ingredients, written, output, result, error>>
  /\ UNCHANGED libVars

\* a writer that emits line by line: the lines before a None entry are
\* written before the TypeError is raised
WriteOutput_WritesUpToFailure ==
  /\ pc = "loop"
  /\ idx > Len(original_lines)
  /\ IF \E i \in 1..Len(converted_lines) : converted_lines[i].none
     THEN /\ Except("TypeError")
          /\ written' = TRUE
          /\ output' = join("\n", [i \in 1..((CHOOSE k \in 1..Len(converted_lines) :
                                                /\ converted_lines[k].none
                                                /\ \A j \in 1..(k - 1) : ~converted_lines[j].none) - 1)
                                     |-> converted_lines[i].text])
     ELSE /\ output' = join("\n", [i \in 1..Len(converted_lines) |-> converted_lines[i].text])
          /\ written' = TRUE
          /\ result' = conversion_count
          /\ pc' = "done"
          /\ error' = ""
  /\ UNCHANGED <<recipe_text, to_metric, ingredients, idx, converted_lines, conversion_count>>
  /\ UNCHANGED libVars

\* lines 157-159: "\n".join raises TypeError on a None entry, before
\* anything is written
WriteOutput ==
  /\ pc = "loop"
  /\ idx > Len(original_lines)
  /\ IF \E i \in 1..Len(converted_lines) : converted_lines[i].none
     THEN /\ Except("TypeError")
          /\ UNCHANGED <<written, output>>
     ELSE /\ output' = join("\n", [i \in 1..Len(converted_lines) |-> converted_lines[i].text])
          /\ written' = TRUE
          /\ result' = conversion_count
          /\ pc' = "done"
          /\ error' = ""
  /\ UNCHANGED <<recipe_text, to_metric, ingredients, idx, converted_lines, conversion_count>>
  /\ UNCHANGED libVars

Next == ParseRecipe \/ ConvertLine \/ WriteOutput

Spec == Init /\ [][Next]_vars

(***************************************************************************)
(* Vocabulary of the properties.                                           *)
(***************************************************************************)
\* the lines of the text written to the output
OutputLines == split(output, "\n")

\* the groups the line pattern captures on the trimmed line
GroupsOf(line) == INGREDIENT_PATTERN(strip(line))

\* neither a numeral nor a unit token matches at the start of the line
PlainLine(line) ==
  \/ strip(line) = ""
  \/ GroupsOf(line).amount_str = "" /\ GroupsOf(line).unit_str = ""

\* what the Line Parser returns for the trimmed line
ParsedOf(line) ==
  IF strip(line) = "" THEN [exc |-> "", found |-> FALSE, ing |-> NoIngredient]
  ELSE _parse_ingredient_line(strip(line))

Resolves(name) == get_ingredient(ingredient_db, name).found

DensityOf(name) == get_ingredient(ingredient_db, name).ing.density

Contains(s, sub) == \E k \in 1..(Len(s) - Len(sub) + 1) : SubSeq(s, k, k + Len(sub) - 1) = sub

\* spec 4.1: milliliters per canonical volume unit, grams per weight unit
SpecMilliliters ==
  [u \in VolumeToWeightUnits |->
     CASE u = "cup" -> Rat(236588, 1000)
       [] u = "tablespoon" -> Rat(14787, 1000)
       [] u = "teaspoon" -> Rat(4929, 1000)
       [] u = "fluid ounce" -> Rat(29574, 1000)]

SpecGrams ==
  [u \in WeightUnits |->
     CASE u = "pound" -> Rat(453592, 1000)
       [] u = "ounce" -> Rat(2835, 100)]

\* spec 4.4: milligrams below 1 g, whole grams below 1000 g, else kilograms
WeightText(grams, name) ==
  IF RLt(grams, RInt(1)) THEN Format0f(RMul(grams, RInt(1000))) \o " mg " \o name
  ELSE IF RLt(grams, RInt(1000)) THEN Format0f(grams) \o " g " \o name
  ELSE Format2f(RDiv(grams, RInt(1000))) \o " kg " \o name

GramsOrKilogramsText(grams, name) ==
  IF RLt(grams, RInt(1000)) THEN Format0f(grams) \o " g " \o name
  ELSE Format2f(RDiv(grams, RInt(1000))) \o " kg " \o name

Celsius(fahrenheit) == RDiv(RMul(RSub(fahrenheit, RInt(32)), RInt(5)), RInt(9))

\* the lines the loop has handled so far
Handled == 1..Len(converted_lines)

(***************************************************************************)
(* C1: every line at whose start neither a numeral nor a unit matches is   *)
(* in the output of convert_recipe, unchanged and at the same position;    *)
(* a text of such lines only is written back as it is, with count 0.       *)
(***************************************************************************)
C1_PlainLinesKept ==
  pc = "done" =>
    /\ \A i \in 1..Len(original_lines) :
          PlainLine(original_lines[i]) =>
            /\ written
            /\ i <= Len(OutputLines)
            /\ OutputLines[i] = original_lines[i]
    /\ (\A i \in 1..Len(original_lines) : PlainLine(original_lines[i])) =>
          /\ written
          /\ output = recipe_text
          /\ result = 0

(***************************************************************************)
(* C2: the output has as many lines as the input, and every line that no   *)
(* conversion rewrites is emitted exactly as in the input, surrounding     *)
(* whitespace included.                                                    *)
(***************************************************************************)
C2_LineCongruent ==
  /\ written => Len(OutputLines) = Len(original_lines)
  /\ \A i \in Handled :
        ~ConvertedLine(original_lines[i], ingredients, to_metric).counted =>
          converted_lines[i] = Str(original_lines[i])

(***************************************************************************)
(* C3: converting to metric, a parsed line in cups, tablespoons, teaspoons *)
(* or fluid ounces whose name has a density is rewritten as the weight     *)
(* amount-in-cups x density, in mg, g or kg, followed by the name.         *)
(***************************************************************************)
C3_VolumeToWeight ==
  to_metric =>
    \A i \in Handled :
      LET p == ParsedOf(original_lines[i])
      IN (p.found /\ p.ing.unit \in VolumeToWeightUnits /\ Resolves(p.ing.name)) =>
           LET cups == RDiv(RMul(p.ing.amount, SpecMilliliters[p.ing.unit]), SpecMilliliters["cup"])
               grams == RMul(cups, DensityOf(p.ing.name))
           IN converted_lines[i] = Str(WeightText(grams, p.ing.name))

(***************************************************************************)
(* C4: converting to metric, a parsed line in pounds or ounces is          *)
(* rewritten in grams (kilograms from 1000 g) by the fixed weight factors, *)
(* whether or not its name has a density.                                  *)
(***************************************************************************)
C4_WeightToWeight ==
  to_metric =>
    \A i \in Handled :
      LET p == ParsedOf(original_lines[i])
      IN (p.found /\ p.ing.unit \in WeightUnits) =>
           converted_lines[i] =
             Str(GramsOrKilogramsText(RMul(p.ing.amount, SpecGrams[p.ing.unit]), p.ing.name))

(***************************************************************************)
(* C5: converting to metric, a parsed Fahrenheit line is rewritten with    *)
(* (amount - 32) * 5 / 9 rounded to a whole degree and the Celsius sign,   *)
(* whatever text follows the unit.                                         *)
(***************************************************************************)
C5_FahrenheitToCelsius ==
  to_metric =>
    \A i \in Handled :
      LET p == ParsedOf(original_lines[i])
      IN (p.found /\ p.ing.unit = "f") =>
           /\ ~converted_lines[i].none
           /\ startswith(converted_lines[i].text, Format0f(Celsius(p.ing.amount)))
           /\ Contains(converted_lines[i].text, "°C")

\* the values of the <digits>°F mentions of a line
FahrenheitMentions(line) ==
  LET runs == {ab \in (1..Len(line)) \X (1..Len(line)) :
                 /\ ab[1] <= ab[2] /\ ab[2] + 2 <= Len(line)
                 /\ \A k \in ab[1]..ab[2] : IsDigit(Char(line, k))
                 /\ (ab[1] = 1 \/ ~IsDigit(Char(line, ab[1] - 1)))
                 /\ Char(line, ab[2] + 1) = "°"
                 /\ Lower(Char(line, ab[2] + 2)) = "f"}
  IN {int(SubSeq(line, ab[1], ab[2])) : ab \in runs}

(***************************************************************************)
(* C6: converting to metric, a temperature <digits>°F inside an            *)
(* instruction line comes out as the rounded Celsius value and °C.         *)
(***************************************************************************)
C6_InstructionTemperature ==
  to_metric =>
    \A i \in Handled :
      PlainLine(original_lines[i]) =>
        \A n \in FahrenheitMentions(original_lines[i]) :
          Contains(converted_lines[i].text, Format0f(Celsius(RInt(n))) \o "°C")

VolumeUnits == {VOLUME_UNITS[i][1] : i \in 1..Len(VOLUME_UNITS)}

UnknownVolumeLine(line) ==
  /\ line = strip(line)
  /\ ~PlainLine(line)
  /\ GroupsOf(line).amount_str # ""
  /\ ParsedOf(line).found
  /\ ParsedOf(line).ing.unit \in VolumeUnits
  /\ ~Resolves(ParsedOf(line).ing.name)

(***************************************************************************)
(* C7: a line <amount> <volume unit> <name> whose name has no density is   *)
(* emitted by convert_recipe unchanged and is not counted: for the text    *)
(* "1 cup unicorn tears" the count is 0.                                   *)
(***************************************************************************)
C7_UnknownIngredientKept ==
  pc = "done" =>
    \A i \in 1..Len(original_lines) :
      UnknownVolumeLine(original_lines[i]) =>
        /\ error = ""
        /\ written
        /\ i <= Len(OutputLines)
        /\ OutputLines[i] = original_lines[i]
        /\ Len(original_lines) = 1 => result = 0

\* line i of the input has an emitted text
Emitted(i) == written /\ i <= Len(OutputLines)

(***************************************************************************)
(* C8, as stated: the count returned is the number of input lines whose     *)
(* emitted text differs from the trimmed text of the line.                 *)
(***************************************************************************)
C8_CountIsLinesThatDiffer ==
  pc = "done" =>
    result = Cardinality({i \in 1..Len(original_lines) :
                            Emitted(i) /\ OutputLines[i] # strip(original_lines[i])})

IngredientLine(i) ==
  \E k \in 1..Len(ingredients) : ingredients[k].original_text = strip(original_lines[i])

(***************************************************************************)
(* C8, amended: the count returned is the number of input lines that were   *)
(* parsed as ingredients and whose emitted text differs from the trimmed   *)
(* text of the line, each occurrence of a repeated line counting; a line   *)
(* emitted as its trimmed text is not counted.                             *)
(***************************************************************************)
C8_CountIsIngredientLinesThatDiffer ==
  pc = "done" =>
    result = Cardinality({i \in 1..Len(original_lines) :
                            /\ Emitted(i)
                            /\ IngredientLine(i)
                            /\ OutputLines[i] # strip(original_lines[i])})

\* a repeated line is converted and counted at both occurrences, next to
\* runs that count nothing
C8_Witness ==
  /\ pc = "done"
  /\ written
  /\ Len(original_lines) = 2
  /\ original_lines[1] = original_lines[2]
  /\ result = 2

(***************************************************************************)
(* C9: no failure on one line aborts the others: every run of              *)
(* convert_recipe ends with the whole output written, a failing line       *)
(* emitted as its original text and not counted.                           *)
(***************************************************************************)
C9_NoLineAbortsTheRun ==
  pc = "done" =>
    /\ error = ""
    /\ written
    /\ Len(OutputLines) = Len(original_lines)

MalformedNumeral(line) ==
  /\ strip(line) # ""
  /\ GroupsOf(line).amount_str # ""
  /\ \E k \in 1..Len(splitWhitespace(GroupsOf(line).amount_str)) :
        Fraction(splitWhitespace(GroupsOf(line).amount_str)[k]).exc # ""

(***************************************************************************)
(* C10: a line whose numeral matches the numeral grammar but has a         *)
(* component that is no valid integer or fraction is not an ingredient:    *)
(* the Line Parser returns absent without raising and the line is emitted  *)
(* as ordinary text.                                                       *)
(***************************************************************************)
C10_MalformedNumeralIsText ==
  pc = "done" =>
    \A i \in 1..Len(original_lines) :
      MalformedNumeral(original_lines[i]) =>
        /\ ParsedOf(original_lines[i]).exc = ""
        /\ ~ParsedOf(original_lines[i]).found
        /\ error = ""
        /\ written
        /\ OutputLines[i] = original_lines[i]

(***************************************************************************)
(* Direct calls, as the unit tests make them: calls holds the call and its *)
(* arguments, pc is "call" before it runs and "return" after, ret is what  *)
(* it returned or raised.  No run of convert_recipe takes part.            *)
(***************************************************************************)
cliVars == <<recipe_text, to_metric, ingredients, idx, converted_lines,
             conversion_count, written, output, result, error>>

cliIdle ==
  /\ recipe_text = ""
  /\ to_metric = TRUE
  /\ ingredients = <<>>
  /\ idx = 1
  /\ converted_lines = <<>>
  /\ conversion_count = 0
  /\ written = FALSE
  /\ output = ""
  /\ result = 0
  /\ error = ""

(***************************************************************************)
(* parser.py: RecipeParser()._parse_ingredient_line(line), called on a     *)
(* trimmed line as parse_recipe and test_parser.py call it.                *)
(***************************************************************************)
\* the length of the lines that are enumerated in full
MaxChars == 3

ParserAlphabet == {"2", "5", "/", ".", " ", "c", "x"}

RECURSIVE StringsOfLength(_)
StringsOfLength(n) ==
  IF n = 0 THEN {""}
  ELSE {t \o c : t \in StringsOfLength(n - 1), c \in ParserAlphabet}

\* numerals of the four forms with their values <<numerator, denominator>>
Numerals ==
  { <<"2 1/4", 9, 4>>, <<"3/4", 3, 4>>, <<"1 1/2", 3, 2>>, <<"2.5", 5, 2>>,
    <<"2", 2, 1>>, <<"12", 12, 1>>, <<"10 3/10", 103, 10>>, <<"0.125", 1, 8>>,
    <<"02/04", 1, 2>> }

\* what follows a numeral in a line
Tails == {" cups flour", " eggs", "x", " tsp. salt", " 7up"}

\* the lines of test_parser.py, and lines of their kind
TestLines ==
  { "2 cups all-purpose flour", "1/2 cup sugar", "1 1/2 tsp vanilla extract",
    "2.5 tablespoons olive oil", "pinch of salt", "cup of flour", "2 eggs",
    "Preheat oven to 350°F", "", "INGREDIENTS:", "1/0 cup flour", "2 cups",
    "1 cup, sifted flour" }

ParserLines ==
  {l \in UNION {StringsOfLength(n) : n \in 0..MaxChars} : strip(l) = l}
    \cup TestLines
    \cup {n[1] \o t : n \in Numerals, t \in Tails}
    \cup {"2 " \o UNIT_VARIATIONS[i] \o " sugar" : i \in 1..Len(UNIT_VARIATIONS)}

ParserInit ==
  /\ calls \in {<<[fn |-> "_parse_ingredient_line", line |-> l]>> : l \in ParserLines}
  /\ pc = "call"
  /\ ret = NoReturn
  /\ db = EmptyTable
  /\ cliIdle

ParseIngredientLine ==
  /\ pc = "call"
  /\ calls[1].fn = "_parse_ingredient_line"
  /\ ret' = _parse_ingredient_line(calls[1].line)
  /\ pc' = "return"
  /\ UNCHANGED <<calls, db>>
  /\ UNCHANGED cliVars

ParserNext == ParseIngredientLine

ParserSpec == ParserInit /\ [][ParserNext]_vars

(***************************************************************************)
(* Vocabulary of the parser properties: the tokens at the start of a       *)
(* trimmed line, each taken on its own, whatever follows it.               *)
(***************************************************************************)
\* the end of the numeral at the start of the line, 0 when there is none
NumeralEnd(line) ==
  IF NUMBER_PATTERN(line, 0) = <<>> THEN 0 ELSE NUMBER_PATTERN(line, 0)[1]

\* the end of the unit token after the numeral, 0 when there is none
UnitTokenEnd(line) ==
  IF UnitEnds(line, NumeralEnd(line) + SpaceRun(line, NumeralEnd(line))) = <<>> THEN 0
  ELSE UnitEnds(line, NumeralEnd(line) + SpaceRun(line, NumeralEnd(line)))[1]

NumeralValue(numeral) == sumFractions(splitWhitespace(numeral)).value

Returned(fn) == pc = "return" /\ calls[Len(calls)].fn = fn

(***************************************************************************)
(* C11: the Line Parser returns absent exactly for the trimmed lines at    *)
(* whose start neither a numeral nor a unit token matches; otherwise the   *)
(* amount is the numeral's value, or 1 when there is a unit and no         *)
(* numeral, and the unit is empty when there is only a numeral.            *)
(***************************************************************************)
C11_AbsentIffNoNumeralNoUnit ==
  Returned("_parse_ingredient_line") =>
    LET line == calls[1].line
        hasNumeral == NumeralEnd(line) > 0
        hasUnit == UnitTokenEnd(line) > 0
    IN /\ ret.exc = ""
       /\ ret.found <=> (hasNumeral \/ hasUnit)
       /\ ret.found =>
            /\ ret.ing.amount = IF hasNumeral THEN NumeralValue(SubSeq(line, 1, NumeralEnd(line)))
                                ELSE RInt(1)
            /\ ~hasUnit => ret.ing.unit = ""

CanonicalOf(v) ==
  {ALL_UNITS[i][1] : i \in {k \in 1..Len(ALL_UNITS) :
                              \E j \in 1..Len(ALL_UNITS[k][2]) : ALL_UNITS[k][2][j] = v}}

(***************************************************************************)
(* C13: for every variant v of the unit table, those ending in a period    *)
(* included, the line <numeral> v <name> is parsed with the canonical unit *)
(* of v and with exactly <name> as the name.                               *)
(***************************************************************************)
C13_EveryVariantParsed ==
  Returned("_parse_ingredient_line") =>
    \A i \in 1..Len(UNIT_VARIATIONS) :
      calls[1].line = "2 " \o UNIT_VARIATIONS[i] \o " sugar" =>
        /\ ret.exc = ""
        /\ ret.found
        /\ ret.ing.unit \in CanonicalOf(UNIT_VARIATIONS[i])
        /\ ret.ing.name = "sugar"

(***************************************************************************)
(* Direct calls of the conversion functions of converter.py and units.py   *)
(* and of the conversion methods of models.Ingredient, one call per        *)
(* behaviour, as test_units.py and test_ingredients.py make them.          *)
(***************************************************************************)
UnitNames ==
  {ml_conversions[i][1] : i \in 1..Len(ml_conversions)}
    \cup {g_conversions[i][1] : i \in 1..Len(g_conversions)}
    \cup {ALL_UNITS[i][1] : i \in 1..Len(ALL_UNITS)}
    \cup {"c", "k", "invalid_unit"}

Amounts == {RInt(0), RInt(1), RInt(32), RInt(100), RInt(212), Rat(5, 2), RInt(-40)}

\* the volumes and weights the Ingredient methods are called with
MethodAmounts == {RInt(0), RInt(1), Rat(5, 2), RInt(12)}

Densities == {RInt(0), RInt(120), RInt(200)}

ConversionFunctions ==
  {"converter.convert_volume", "converter.convert_weight", "converter.convert_temperature",
   "units.convert_volume", "units.convert_weight", "units.convert_temperature"}

IngredientMethods == {"Ingredient.convert_volume_to_weight", "Ingredient.convert_weight_to_volume"}

UnitsInit ==
  /\ calls \in
       {<<[fn |-> f, amount |-> a, from_unit |-> u, to_unit |-> v]>> :
          f \in ConversionFunctions, a \in Amounts, u \in UnitNames, v \in UnitNames}
       \cup {<<[fn |-> f, density |-> d, amount |-> a, unit |-> u]>> :
               f \in IngredientMethods, d \in Densities, a \in MethodAmounts, u \in UnitNames}
  /\ pc = "call"
  /\ ret = NoReturn
  /\ db = EmptyTable
  /\ cliIdle

\* the call returns or raises value
Returns(value) ==
  /\ ret' = value
  /\ pc' = "return"
  /\ UNCHANGED <<calls, db>>
  /\ UNCHANGED cliVars

ConvertVolume ==
  /\ pc = "call"
  /\ calls[1].fn = "converter.convert_volume"
  /\ Returns(convert_volume(calls[1].amount, calls[1].from_unit, calls[1].to_unit))

ConvertWeight ==
  /\ pc = "call"
  /\ calls[1].fn = "converter.convert_weight"
  /\ Returns(convert_weight(calls[1].amount, calls[1].from_unit, calls[1].to_unit))

ConvertTemperature ==
  /\ pc = "call"
  /\ calls[1].fn = "converter.convert_temperature"
  /\ Returns(convert_temperature(calls[1].amount, calls[1].from_unit, calls[1].to_unit))

UnitsConvertVolume ==
  /\ pc = "call"
  /\ calls[1].fn = "units.convert_volume"
  /\ Returns(units_convert_volume(calls[1].amount, calls[1].from_unit, calls[1].to_unit))

UnitsConvertWeight ==
  /\ pc = "call"
  /\ calls[1].fn = "units.convert_weight"
  /\ Returns(units_convert_weight(calls[1].amount, calls[1].from_unit, calls[1].to_unit))

UnitsConvertTemperature ==
  /\ pc = "call"
  /\ calls[1].fn = "units.convert_temperature"
  /\ Returns(units_convert_temperature(calls[1].amount, calls[1].from_unit, calls[1].to_unit))

\* the methods are called on Ingredient("Sugar", density)
ConvertVolumeToWeight ==
  /\ pc = "call"
  /\ calls[1].fn = "Ingredient.convert_volume_to_weight"
  /\ Returns(convert_volume_to_weight(Ingredient("Sugar", calls[1].density, <<>>),
                                      calls[1].amount, calls[1].unit))

ConvertWeightToVolume ==
  /\ pc = "call"
  /\ calls[1].fn = "Ingredient.convert_weight_to_volume"
  /\ Returns(convert_weight_to_volume(Ingredient("Sugar", calls[1].density, <<>>),
                                      calls[1].amount, calls[1].unit))

UnitsNext ==
  \/ ConvertVolume
  \/ ConvertWeight
  \/ ConvertTemperature
  \/ UnitsConvertVolume
  \/ UnitsConvertWeight
  \/ UnitsConvertTemperature
  \/ ConvertVolumeToWeight
  \/ ConvertWeightToVolume

UnitsSpec == UnitsInit /\ [][UnitsNext]_vars

(***************************************************************************)
(* Vocabulary of the conversion properties.                                *)
(***************************************************************************)
\* the table of factors of the function that was called
KnownUnits(fn) ==
  IF fn \in {"converter.convert_volume", "units.convert_volume"} THEN ml_conversions
  ELSE g_conversions

\* the message names one of the units and lists the valid ones
NamesUnitAndValidUnits(msg, offending, table) ==
  /\ \E u \in offending : Contains(msg, u)
  /\ \A i \in 1..Len(table) : Contains(msg, table[i][1])
  /\ Contains(msg, join(", ", dictKeys(table)))

\* an unknown unit is refused with a ValueError that names it
UnknownUnitRefused(fns) ==
  pc = "return" /\ calls[1].fn \in fns =>
    LET table == KnownUnits(calls[1].fn)
        offending == {u \in {calls[1].from_unit, calls[1].to_unit} : ~dictHas(table, u)}
    IN offending # {} =>
         /\ ret.exc = "ValueError"
         /\ NamesUnitAndValidUnits(ret.msg, offending, table)

(***************************************************************************)
(* C14: convert_volume and convert_weight, of units.py as of converter.py, *)
(* raise ValueError for every amount when the source or the target unit is *)
(* not a unit they know, and the message names the offending unit and      *)
(* lists the valid units.                                                  *)
(***************************************************************************)
C14_UnknownUnitIsValueError ==
  UnknownUnitRefused({"converter.convert_volume", "converter.convert_weight",
                      "units.convert_volume", "units.convert_weight"})

TemperatureFunctions == {"converter.convert_temperature", "units.convert_temperature"}

\* the fixed points the tests name: <<fahrenheit, celsius>>
TemperaturePairs == {<<32, 0>>, <<212, 100>>, <<-40, -40>>}

(***************************************************************************)
(* C15: convert_temperature returns c with 9 c = 5 (v - 32) from           *)
(* fahrenheit to celsius and f with 5 (f - 32) = 9 v from celsius to       *)
(* fahrenheit, so 32 F is 0 C and 212 F is 100 C; it returns its input     *)
(* when the two units are the same, and for every other pair it raises an  *)
(* error that names both units.                                            *)
(***************************************************************************)
C15_TemperatureFormulas ==
  pc = "return" /\ calls[1].fn \in TemperatureFunctions =>
    LET v == calls[1].amount
        from == calls[1].from_unit
        to == calls[1].to_unit
    IN IF from = "f" /\ to = "c"
       THEN /\ ret.exc = ""
            /\ RMul(ret.value, RInt(9)) = RMul(RSub(v, RInt(32)), RInt(5))
            /\ \A p \in TemperaturePairs : v = RInt(p[1]) => ret.value = RInt(p[2])
       ELSE IF from = "c" /\ to = "f"
       THEN /\ ret.exc = ""
            /\ RMul(RSub(ret.value, RInt(32)), RInt(5)) = RMul(v, RInt(9))
            /\ \A p \in TemperaturePairs : v = RInt(p[2]) => ret.value = RInt(p[1])
       ELSE IF from = to
       THEN ret.exc = "" /\ ret.value = v
       ELSE /\ ret.exc = "ValueError"
            /\ Contains(ret.msg, from \o " to " \o to)

\* 212 F was converted to 100 C
C15_Witness ==
  /\ pc = "return"
  /\ calls[1].fn = "converter.convert_temperature"
  /\ calls[1].from_unit = "f"
  /\ calls[1].to_unit = "c"
  /\ calls[1].amount = RInt(212)
  /\ ret.exc = ""
  /\ ret.value = RInt(100)

\* the canonical weight units the Line Parser produces
ParserWeightUnits == {WEIGHT_UNITS[i][1] : i \in 1..Len(WEIGHT_UNITS)}

(***************************************************************************)
(* C16: convert_volume accepts every canonical volume unit the Line Parser *)
(* produces and convert_weight every canonical weight unit: converting an  *)
(* amount in one of them to milliliters or to grams does not fail.         *)
(***************************************************************************)
C16_ParserUnitsAccepted ==
  /\ Returned("converter.convert_volume") =>
       (calls[1].from_unit \in VolumeUnits /\ calls[1].to_unit = "ml" => ret.exc = "")
  /\ Returned("converter.convert_weight") =>
       (calls[1].from_unit \in ParserWeightUnits /\ calls[1].to_unit = "g" => ret.exc = "")

(***************************************************************************)
(* An IngredientDatabase() object, as test_ingredients_db.py uses it: db   *)
(* is its ingredients dict, which __init__ fills with the defaults; calls  *)
(* is the sequence of add_ingredient and get_ingredient calls made on it   *)
(* and ret what the last one returned (found = FALSE is None).             *)
(***************************************************************************)
\* the number of calls made on one database object
MaxCalls == 3

\* <<name, density, aliases>> of the add_ingredient calls
AddArguments ==
  { <<"maple syrup", 315, <<"pure maple syrup", "canadian maple syrup">> >>,
    <<"flour", 130, <<"plain flour">> >>,
    <<"Flour", 125, <<"Plain Flour", "AP Flour">> >>,
    <<"plain flour", 110, <<"flour">> >>,
    <<"honey", 340, <<>> >>,
    <<"Old-Fashioned Oats", 80, <<"porridge oats">> >> }

\* the names looked up
Queries ==
  { "FLOUR", "all purpose flour", "old fashioned oats", "baking-soda",
    "Canadian Maple Syrup", "nonexistent ingredient" }

DbInit ==
  /\ db = _load_default_ingredients
  /\ calls = <<>>
  /\ ret = NoReturn
  /\ pc = "call"
  /\ cliIdle

AddIngredient ==
  /\ Len(calls) < MaxCalls
  /\ \E a \in AddArguments :
       /\ db' = add_ingredient(db, a[1], RInt(a[2]), a[3])
       /\ calls' = Append(calls, [fn |-> "add_ingredient", name |-> a[1],
                                  density |-> RInt(a[2]), aliases |-> a[3]])
  /\ ret' = [found |-> FALSE, ing |-> NoEntry]
  /\ pc' = "return"
  /\ UNCHANGED cliVars

GetIngredient ==
  /\ Len(calls) < MaxCalls
  /\ \E name \in Queries :
       /\ ret' = get_ingredient(db, name)
       /\ calls' = Append(calls, [fn |-> "get_ingredient", name |-> name])
  /\ pc' = "return"
  /\ UNCHANGED db
  /\ UNCHANGED cliVars

DbNext ==
  \/ AddIngredient
  \/ GetIngredient

DbSpec == DbInit /\ [][DbNext]_vars

(***************************************************************************)
(* Vocabulary of the database claims.                                      *)
(***************************************************************************)
Upper(c) ==
  IF c \in CharsOf(LowerLetters)
  THEN Char(UpperLetters, CHOOSE i \in 1..26 : Char(LowerLetters, i) = c)
  ELSE c

RECURSIVE upper(_)
upper(s) ==
  IF s = "" THEN "" ELSE Upper(Char(s, 1)) \o upper(SubSeq(s, 2, Len(s)))

\* a key written in lower case, in upper case and with a capital initial
LetterCases(k) ==
  {k, upper(k)} \cup (IF k = "" THEN {} ELSE {Upper(Char(k, 1)) \o SubSeq(k, 2, Len(k))})

Found(entry) == [found |-> TRUE, ing |-> entry]

\* the keys an add_ingredient call names: its case-folded name and aliases
KeysNamed(call) ==
  {casefold(call.name)} \cup {casefold(call.aliases[j]) : j \in 1..Len(call.aliases)}

\* the positions in calls of the add_ingredient calls that name key k
AddsNaming(k) ==
  {i \in 1..Len(calls) : calls[i].fn = "add_ingredient" /\ k \in KeysNamed(calls[i])}

FirstOf(adds) == CHOOSE i \in adds : \A j \in adds : i <= j

LastOf(adds) == CHOOSE i \in adds : \A j \in adds : j <= i

\* the entry an add_ingredient call builds
EntryOf(call) == Ingredient(call.name, call.density, call.aliases)

\* the entry built by the most recent add_ingredient call that names key k
LatestEntry(k) == EntryOf(calls[LastOf(AddsNaming(k))])

\* the lookup of key k, in each letter case, returns entry
ResolvesTo(k, entry) == \A q \in LetterCases(k) : get_ingredient(db, q) = Found(entry)

AddedKeys ==
  UNION {KeysNamed(calls[i]) : i \in {j \in 1..Len(calls) : calls[j].fn = "add_ingredient"}}

(***************************************************************************)
(* C17: a lookup that writes a stored hyphenated key with spaces instead   *)
(* of hyphens, in any letter case, returns the entry stored under that     *)
(* key; a lookup that matches no key after case-folding and separator      *)
(* normalisation returns not-found.                                        *)
(***************************************************************************)
C17_SeparatorInsensitiveLookup ==
  Returned("get_ingredient") =>
    /\ \A k \in DOMAIN db :
         Contains(k, "-") /\ casefold(calls[Len(calls)].name) = replace(k, "-", " ")
           => ret = Found(db[k])
    /\ (\A k \in DOMAIN db :
          replace(replace(k, "-", " "), "_", " ")
            # replace(replace(casefold(calls[Len(calls)].name), "-", " "), "_", " "))
         => ~ret.found

(***************************************************************************)
(* C18: after any sequence of add_ingredient calls the lookup of a key     *)
(* named by an add, in any letter case, returns the entry built by the     *)
(* most recent add naming it, with that add's density; every other key     *)
(* keeps the mapping the defaults gave it.                                 *)
(***************************************************************************)
C18_LatestAddWins ==
  /\ DOMAIN db = DOMAIN _load_default_ingredients \cup AddedKeys
  /\ \A k \in AddedKeys : ResolvesTo(k, LatestEntry(k))
  /\ \A k \in DOMAIN db \ AddedKeys : db[k] = _load_default_ingredients[k]
  /\ Returned("get_ingredient") /\ casefold(calls[Len(calls)].name) \in AddedKeys
       => ret = Found(LatestEntry(casefold(calls[Len(calls)].name)))

\* two adds named "flour" and the lookup of "FLOUR" returned the later one
C18_Witness ==
  /\ Returned("get_ingredient")
  /\ calls[Len(calls)].name = "FLOUR"
  /\ Cardinality(AddsNaming("flour")) > 1
  /\ ret.found
  /\ ret.ing.density = calls[LastOf(AddsNaming("flour"))].density
  /\ ret.ing.density # calls[FirstOf(AddsNaming("flour"))].density

(***************************************************************************)
(* C19: an add_ingredient under a name that already resolves replaces the  *)
(* previous entry: after the add no key of the table resolves to the       *)
(* entry that name resolved to before.                                     *)
(***************************************************************************)
C19_NoKeyKeepsPreviousEntry ==
  [][ (/\ Len(calls') = Len(calls) + 1
       /\ calls'[Len(calls')].fn = "add_ingredient"
       /\ get_ingredient(db, calls'[Len(calls')].name).found
       /\ db'[casefold(calls'[Len(calls')].name)] # get_ingredient(db, calls'[Len(calls')].name).ing)
      => \A k \in DOMAIN db' : db'[k] # get_ingredient(db, calls'[Len(calls')].name).ing ]_vars

(***************************************************************************)
(* C20: Ingredient.convert_weight_to_volume raises ZeroDivisionError       *)
(* whenever the density is 0, for every grams value and every target unit, *)
(* supported or not; with a non-zero density and an unsupported unit it    *)
(* raises ValueError.                                                      *)
(***************************************************************************)
C20_ZeroDensityRaises ==
  Returned("Ingredient.convert_weight_to_volume") =>
    /\ calls[1].density = RInt(0) => ret.exc = "ZeroDivisionError"
    /\ calls[1].density # RInt(0) /\ ~dictHas(ml_conversions, calls[1].unit)
         => ret.exc = "ValueError"

\* a zero density with an unsupported unit still ended in ZeroDivisionError
C20_Witness ==
  /\ Returned("Ingredient.convert_weight_to_volume")
  /\ calls[1].density = RInt(0)
  /\ calls[1].amount # RInt(0)
  /\ calls[1].unit = "invalid_unit"
  /\ ret.exc = "ZeroDivisionError"

(***************************************************************************)
(* Vocabulary of the formatting claims: the loop of convert_recipe hands   *)
(* line i to format_converted_ingredient when its trimmed text is the      *)
(* original_text of a parsed ingredient.                                   *)
(***************************************************************************)
FormattedLine(i) ==
  \E k \in 1..Len(ingredients) : ingredients[k].original_text = strip(original_lines[i])

\* the formatting policy has a conversion for the unit in this direction
PolicyCovers(unit, metric) ==
  \/ metric /\ unit \in VolumeToWeightUnits
  \/ metric /\ unit \in WeightUnits
  \/ metric /\ unit = "f"
  \/ ~metric /\ unit = "c"

(***************************************************************************)
(* C21: format_converted_ingredient returns a text for every parsed line   *)
(* in both directions, and the line's original text in every case the      *)
(* formatting policy does not cover.                                       *)
(***************************************************************************)
C21_FormatAlwaysReturnsText ==
  \A i \in Handled :
    FormattedLine(i) =>
      /\ ~converted_lines[i].none
      /\ ~PolicyCovers(ParsedOf(original_lines[i]).ing.unit, to_metric)
           => converted_lines[i] = Str(strip(original_lines[i]))

\* the unit token the line pattern captured on the line of the call, case-folded
MatchedVariant == casefold(INGREDIENT_PATTERN(calls[1].line).unit_str)

(***************************************************************************)
(* C22: the unit variant table is unambiguous: the variant matched on a    *)
(* parsed line is listed under exactly one canonical unit, the one         *)
(* returned, so the canonical unit does not depend on the order in which   *)
(* the families are merged into unit_map.                                  *)
(***************************************************************************)
C22_VariantTableUnambiguous ==
  Returned("_parse_ingredient_line") /\ ret.exc = "" /\ ret.found
    /\ MatchedVariant \in DOMAIN unit_map
    => CanonicalOf(MatchedVariant) = {ret.ing.unit}

\* the canonical units of the variant table
CanonicalUnits == {ALL_UNITS[i][1] : i \in 1..Len(ALL_UNITS)}

(***************************************************************************)
(* C23: the unit of a record the Line Parser returns is the empty string   *)
(* or a canonical unit of the variant table: the passthrough of            *)
(* un-normalized unit text in _normalize_unit is never taken for a token   *)
(* the line pattern matched.                                               *)
(***************************************************************************)
C23_UnitIsEmptyOrCanonical ==
  Returned("_parse_ingredient_line") /\ ret.exc = "" /\ ret.found
    => ret.ing.unit \in CanonicalUnits \cup {""}

\* the text the line pattern captured as the name on the line of the call
CapturedName == INGREDIENT_PATTERN(calls[1].line).name

\* the post-processing as specified: trimmed, a leading "of " removed,
\* trailing commas stripped
SpecifiedName(captured) ==
  rstrip(IF startswith(strip(captured), "of ")
         THEN SubSeq(strip(captured), 4, Len(strip(captured)))
         ELSE strip(captured), {","})

(***************************************************************************)
(* C24: the name of every record the Line Parser returns has no leading or *)
(* trailing whitespace and is the captured text trimmed, without a leading *)
(* "of " and without trailing commas; commas and other characters at its   *)
(* start are kept.                                                         *)
(***************************************************************************)
C24_NamePostProcessed ==
  Returned("_parse_ingredient_line") /\ ret.exc = "" /\ ret.found
    => /\ ret.ing.name = strip(ret.ing.name)
       /\ ret.ing.name = SpecifiedName(CapturedName)

(***************************************************************************)
(* cli.py run a second time: the text a run of convert_recipe wrote is     *)
(* read back as the input of another run in the same direction.  calls     *)
(* keeps the input and the count of the first run.                         *)
(***************************************************************************)
Rerun ==
  /\ pc = "done"
  /\ written
  /\ calls = <<>>
  /\ calls' = <<[fn |-> "convert_recipe", recipe_text |-> recipe_text, result |-> result]>>
  /\ recipe_text' = output
  /\ pc' = "parse"
  /\ ingredients' = <<>>
  /\ idx' = 1
  /\ converted_lines' = <<>>
  /\ conversion_count' = 0
  /\ written' = FALSE
  /\ output' = ""
  /\ result' = 0
  /\ error' = ""
  /\ UNCHANGED <<to_metric, ret, db>>

RerunNext ==
  \/ ParseRecipe
  \/ ConvertLine
  \/ WriteOutput
  \/ Rerun

RerunSpec == Init /\ [][RerunNext]_vars

\* the run that has ended is the second one, on the output of the first
SecondRunDone == pc = "done" /\ calls # <<>>

(***************************************************************************)
(* C25: converting to metric is idempotent on its own output: a second     *)
(* run of convert_recipe to metric on the text the first one wrote         *)
(* completes, returns the count 0 and writes that text unchanged.          *)
(***************************************************************************)
C25_MetricOutputIsFixedPoint ==
  SecondRunDone /\ to_metric =>
    /\ error = ""
    /\ written
    /\ result = 0
    /\ output = recipe_text

\* the first run rewrote a line and the second run left its output as it was
C25_Witness ==
  /\ SecondRunDone
  /\ to_metric
  /\ calls[1].result > 0
  /\ calls[1].recipe_text # recipe_text
  /\ written
  /\ result = 0
  /\ output = recipe_text

(***************************************************************************)
(* C26: convert_recipe is all-or-nothing: when it has ended, either the    *)
(* whole reassembled text, one line per input line, has been written by    *)
(* the single write and the conversion count is returned, or an exception  *)
(* was caught, nothing has been written and 0 is returned; before it ends  *)
(* nothing is written.                                                     *)
(***************************************************************************)
C26_AllOrNothing ==
  /\ pc # "done" => ~written /\ output = ""
  /\ pc = "done" =>
       \/ /\ error = ""
          /\ written
          /\ Len(converted_lines) = Len(original_lines)
          /\ \A i \in Handled : ~converted_lines[i].none
          /\ output = join("\n", [i \in Handled |-> converted_lines[i].text])
          /\ result = conversion_count
       \/ /\ error # ""
          /\ ~written
          /\ output = ""
          /\ result = 0

\* a run that counted a line and then failed while joining the lines:
\* nothing was written and 0 was returned
C26_Witness ==
  /\ pc = "done"
  /\ error = "TypeError"
  /\ conversion_count > 0
  /\ ~written
  /\ output = ""
  /\ result = 0

====
